---- MODULE Spec2Model ----
(***************************************************************************)
(* Model of xrandrctl: three scripts that adjust the brightness and gamma  *)
(* of display outputs through xrandr and persist the values in a JSON      *)
(* document between invocations.                                           *)
(*                                                                         *)
(*   xrandr_controller.py         per-output records, targets and aliases  *)
(*   minixrandrctl.py             one global record, with --reset          *)
(*   xrandr_controller_simple.py  one global record                        *)
(*                                                                         *)
(* One invocation of a script is main -> get_current_values ->             *)
(* set_new_values -> run_xrandr -> save_new_values.  Floating point values *)
(* are held in thousandths (1.0 is 1000, 0.025 is 25).                     *)
(***************************************************************************)
EXTENDS Integers, Sequences, FiniteSets, TLC

VARIABLES
    variant,        \* which script is invoked
    argv,           \* sys.argv after the script name was deleted
    arguments,      \* the options parsed by main / self.arguments
    file,           \* the value file on disk
    file0,          \* the value file as it was when the process started
    current_values, \* self.current_values
    pc,             \* the method the process executes next
    exit_status,    \* exit status of the process, -1 while it runs
    exit_cause,     \* what ended the process
    log,            \* records the file handler wrote during this invocation
    xrandr_args,    \* argument groups of the xrandr process of this run
    xrandr_calls,   \* number of xrandr processes started
    xrandr_result,  \* how the xrandr process ended
    applied,        \* the xrandr process adjusted the real displays
    argv0,          \* the command line as given, where a run records it
    reset_gamma,    \* the list object XRandrController.RESET_GAMMA_VALUE
    tally,          \* the invocations so far and what they added up to
    peer,           \* a second invocation running at the same time
    save_events     \* the opens and writes of the value file, in order

vars == <<variant, argv, arguments, file, file0, current_values, pc,
          exit_status, exit_cause, log, xrandr_args, xrandr_calls,
          xrandr_result, applied, argv0, reset_gamma, tally, peer,
          save_events>>

(***************************************************************************)
(* Bounds.                                                                 *)
(***************************************************************************)
MaxTokens == 3
MaxOutputs == 2
MaxRuns == 2
MaxArgs == 3
MaxRecords == 2

(***************************************************************************)
(* Class constants.                                                        *)
(***************************************************************************)
MULTI == "xrandr_controller"
MINI == "minixrandrctl"
SIMPLE == "xrandr_controller_simple"

DEFAULT_BRIGHTNESS_DELTA == 100
DEFAULT_GAMMA_DELTA == <<0, 25, 50>>
BRIGHTNESS_DELTA == 100
GAMMA_DELTA == <<0, 25, 50>>
RESET_BRIGHTNESS_VALUE == 1000
RESET_GAMMA_VALUE == <<1000, 1000, 1000>>

ALLOWED_OPTIONS(v) ==
    IF v = MINI
    THEN [redder |-> FALSE, bluer |-> FALSE, brighter |-> FALSE,
          dimmer |-> FALSE, reset |-> FALSE]
    ELSE [redder |-> FALSE, bluer |-> FALSE, brighter |-> FALSE,
          dimmer |-> FALSE]

(***************************************************************************)
(* Logging: a record reaches the log file when its level is at least the   *)
(* level of the file handler.                                              *)
(***************************************************************************)
LevelNo(level) ==
    CASE level = "DEBUG" -> 10
      [] level = "INFO" -> 20
      [] level = "ERROR" -> 40

HandlerLevel(v) == IF v = MINI THEN "INFO" ELSE "DEBUG"

Emit(v, logv, level, msg) ==
    IF LevelNo(level) >= LevelNo(HandlerLevel(v))
    THEN Append(logv, [level |-> level, msg |-> msg])
    ELSE logv

(***************************************************************************)
(* Command line tokens.  A token is lead hyphens, a body without hyphens   *)
(* at either end, and trail hyphens.                                       *)
(***************************************************************************)
Token(lead, body, trail) == [lead |-> lead, body |-> body, trail |-> trail]

\* str.startswith('-')
startswith_hyphen(tok) == tok.lead > 0

\* str.strip('-')
strip_hyphen(tok) == tok.body

\* the token as the key main stores it under (targets carry no hyphens)
TokenText(tok) == tok.body

Put(dict, key, value) ==
    [k \in (DOMAIN dict) \cup {key} |-> IF k = key THEN value ELSE dict[k]]

EmptyDict == <<>>

B2I(b) == IF b THEN 1 ELSE 0

Min(a, b) == IF a <= b THEN a ELSE b

\* list(map(operator.add, xs, ys)): as long as the shorter list
MapAdd(xs, ys) == [i \in 1..Min(Len(xs), Len(ys)) |-> xs[i] + ys[i]]

SeqsUpTo(S, n) == UNION {[1..m -> S] : m \in 0..n}

(***************************************************************************)
(* main of xrandr_controller.py: targets (tokens without a leading hyphen) *)
(* each followed by their options.                                         *)
(***************************************************************************)
\* one pass of the inner loop after the option was found to start with '-'
\* line 162 without the copy: every entry is the one ALLOWED_OPTIONS dict
take_option_shared_dict(args, output, option) ==
    LET option_stripped == strip_hyphen(option) IN
    IF option_stripped \notin DOMAIN args[output]
    THEN [err |-> TRUE, arguments |-> args]
    ELSE [err |-> FALSE,
          arguments |-> [k \in DOMAIN args |->
                            [args[k] EXCEPT ![option_stripped] = TRUE]]]

take_option_skip_invalid(args, output, option) ==
    LET option_stripped == strip_hyphen(option) IN
    IF option_stripped \notin DOMAIN args[output]
    THEN [err |-> FALSE, arguments |-> args]
    ELSE [err |-> FALSE,
          arguments |-> [args EXCEPT ![output][option_stripped] = TRUE]]

take_option(args, output, option) ==
    LET option_stripped == strip_hyphen(option) IN
    IF option_stripped \notin DOMAIN args[output]
    THEN [err |-> TRUE, arguments |-> args]
    ELSE [err |-> FALSE,
          arguments |-> [args EXCEPT ![output][option_stripped] = TRUE]]

RECURSIVE option_loop(_, _, _)
option_loop(args, output, rest) ==
    IF rest = <<>>
    THEN [err |-> FALSE, arguments |-> args, argv |-> rest]
    ELSE IF ~startswith_hyphen(Head(rest))
    THEN [err |-> FALSE, arguments |-> args, argv |-> rest]
    ELSE LET r == take_option(args, output, Head(rest)) IN
         IF r.err
         THEN [err |-> TRUE, arguments |-> r.arguments, argv |-> rest]
         ELSE option_loop(r.arguments, output, Tail(rest))

\* line 162 as arguments.setdefault(output, dict(ALLOWED_OPTIONS))
new_entry_keep_existing(args, output) ==
    IF output \in DOMAIN args THEN args
    ELSE Put(args, output, ALLOWED_OPTIONS(MULTI))

\* line 162: arguments[output] = dict(XRandrController.ALLOWED_OPTIONS)
new_entry(args, output) == Put(args, output, ALLOWED_OPTIONS(MULTI))

RECURSIVE output_loop(_, _)
output_loop(args, rest) ==
    IF rest = <<>>
    THEN [err |-> FALSE, arguments |-> args, argv |-> rest]
    ELSE LET is_output == ~startswith_hyphen(Head(rest))
             output == IF is_output THEN TokenText(Head(rest)) ELSE "all"
             rest1 == IF is_output THEN Tail(rest) ELSE rest
             r == option_loop(new_entry(args, output), output, rest1)
         IN IF r.err THEN r ELSE output_loop(r.arguments, r.argv)

\* line 152 with the dictionary starting from an entry for 'all'
main_multi_default_all(tokens) ==
    output_loop(Put(EmptyDict, "all", ALLOWED_OPTIONS(MULTI)), tokens)

main_multi(tokens) == output_loop(EmptyDict, tokens)

(***************************************************************************)
(* main of minixrandrctl.py and xrandr_controller_simple.py: options only. *)
(***************************************************************************)
RECURSIVE main_global_loop(_, _, _)
main_global_loop(v, args, rest) ==
    IF rest = <<>>
    THEN [err |-> FALSE, arguments |-> args, argv |-> rest]
    ELSE LET option == Head(rest) IN
         IF ~startswith_hyphen(option)
         THEN [err |-> TRUE, arguments |-> args, argv |-> Tail(rest)]
         ELSE IF strip_hyphen(option) \notin DOMAIN ALLOWED_OPTIONS(v)
         THEN [err |-> TRUE, arguments |-> args, argv |-> Tail(rest)]
         ELSE main_global_loop(
                 v, [args EXCEPT ![strip_hyphen(option)] = TRUE], Tail(rest))

main_global(v, tokens) == main_global_loop(v, ALLOWED_OPTIONS(v), tokens)

parse_arguments(v, tokens) ==
    IF v = MULTI THEN main_multi(tokens) ELSE main_global(v, tokens)

(***************************************************************************)
(* How a process ends.                                                     *)
(***************************************************************************)
\* sys.exit(1)
sys_exit(logv) ==
    [pc |-> "done", exit_status |-> 1, exit_cause |-> "SystemExit",
     log |-> logv]

\* an exception nobody catches: traceback, exit status 1
uncaught(logv, exception) ==
    [pc |-> "done", exit_status |-> 1, exit_cause |-> exception, log |-> logv]

\* the method returns and __init__ goes on with the next one
goes_on(logv, next) ==
    [pc |-> next, exit_status |-> -1, exit_cause |-> "none", log |-> logv]

\* main returns
returns(logv) ==
    [pc |-> "done", exit_status |-> 0, exit_cause |-> "return", log |-> logv]

(***************************************************************************)
(* set_new_values of xrandr_controller.py.                                 *)
(***************************************************************************)
Has(d, key) == key \in DOMAIN d

\* lines 82-89 with 'all' looked up first
select_options_all_first(known_output_dict, args) ==
    IF "all" \in DOMAIN args
    THEN [targeted |-> TRUE, options |-> args["all"]]
    ELSE IF Has(known_output_dict, "alias")
            /\ known_output_dict.alias \in DOMAIN args
    THEN [targeted |-> TRUE, options |-> args[known_output_dict.alias]]
    ELSE IF known_output_dict.output \in DOMAIN args
    THEN [targeted |-> TRUE, options |-> args[known_output_dict.output]]
    ELSE [targeted |-> FALSE, options |-> ALLOWED_OPTIONS(MULTI)]

\* lines 82-89 with the final else falling back to some entry
select_options_no_continue(known_output_dict, args) ==
    IF Has(known_output_dict, "alias")
       /\ known_output_dict.alias \in DOMAIN args
    THEN [targeted |-> TRUE, options |-> args[known_output_dict.alias]]
    ELSE IF known_output_dict.output \in DOMAIN args
    THEN [targeted |-> TRUE, options |-> args[known_output_dict.output]]
    ELSE IF DOMAIN args # {}
    THEN [targeted |-> TRUE,
          options |-> args[CHOOSE k \in DOMAIN args : TRUE]]
    ELSE [targeted |-> FALSE, options |-> ALLOWED_OPTIONS(MULTI)]

\* lines 82-89 passing over an entry in which no flag is set
select_options_skip_empty(known_output_dict, args) ==
    LET set_in(k) ==
            k \in DOMAIN args /\ \E f \in DOMAIN args[k] : args[k][f]
    IN
    IF Has(known_output_dict, "alias") /\ set_in(known_output_dict.alias)
    THEN [targeted |-> TRUE, options |-> args[known_output_dict.alias]]
    ELSE IF set_in(known_output_dict.output)
    THEN [targeted |-> TRUE, options |-> args[known_output_dict.output]]
    ELSE IF set_in("all")
    THEN [targeted |-> TRUE, options |-> args["all"]]
    ELSE [targeted |-> FALSE, options |-> ALLOWED_OPTIONS(MULTI)]

\* lines 78-89: alias, then output name, then 'all', else continue
select_options(known_output_dict, args) ==
    IF Has(known_output_dict, "alias")
       /\ known_output_dict.alias \in DOMAIN args
    THEN [targeted |-> TRUE, options |-> args[known_output_dict.alias]]
    ELSE IF known_output_dict.output \in DOMAIN args
    THEN [targeted |-> TRUE, options |-> args[known_output_dict.output]]
    ELSE IF "all" \in DOMAIN args
    THEN [targeted |-> TRUE, options |-> args["all"]]
    ELSE [targeted |-> FALSE, options |-> ALLOWED_OPTIONS(MULTI)]

\* line 91 and line 98 always taking the class default
gamma_delta_default_only(known_output_dict) == DEFAULT_GAMMA_DELTA

gamma_delta_of(known_output_dict) ==
    IF Has(known_output_dict, "gamma_delta")
    THEN known_output_dict.gamma_delta
    ELSE DEFAULT_GAMMA_DELTA

brightness_delta_of(known_output_dict) ==
    IF Has(known_output_dict, "brightness_delta")
    THEN known_output_dict.brightness_delta
    ELSE DEFAULT_BRIGHTNESS_DELTA

\* line 101 with 'brighter' taking precedence over 'dimmer'
brightness_to_add_brighter_wins(delta, options) ==
    delta * (IF options.brighter THEN 1 ELSE 0 - B2I(options.dimmer))

\* lines 93, 101 (and 79, 82 / 34, 35 of the global scripts)
\* line 93 with the comprehension over delta[:2]
gamma_to_add_two_channels(delta, options) ==
    [i \in 1..Min(Len(delta), 2) |->
        delta[i] * (B2I(options.bluer) - B2I(options.redder))]

gamma_to_add(delta, options) ==
    [i \in 1..Len(delta) |->
        delta[i] * (B2I(options.bluer) - B2I(options.redder))]

brightness_to_add(delta, options) ==
    delta * (B2I(options.brighter) - B2I(options.dimmer))

\* line 102 with the brightness kept within what xrandr shows (0 to 1)
add_brightness_clamped(brightness, to_add) ==
    IF brightness + to_add > 1000 THEN 1000
    ELSE IF brightness + to_add < 0 THEN 0
    ELSE brightness + to_add

\* line 102 (83 / 37 of the global scripts): brightness += brightness_to_add
add_brightness(brightness, to_add) == brightness + to_add

\* lines 78-102 for one record; a missing key raises KeyError where it is read
update_output(known_output_dict, args) ==
    IF ~Has(known_output_dict, "output")
    THEN [err |-> TRUE, rec |-> known_output_dict]
    ELSE LET sel == select_options(known_output_dict, args) IN
    IF ~sel.targeted
    THEN [err |-> FALSE, rec |-> known_output_dict]
    ELSE IF ~Has(known_output_dict, "gamma")
    THEN [err |-> TRUE, rec |-> known_output_dict]
    ELSE LET d1 == [known_output_dict EXCEPT
                      !.gamma = MapAdd(@, gamma_to_add(
                                    gamma_delta_of(known_output_dict),
                                    sel.options))] IN
    IF ~Has(known_output_dict, "brightness")
    THEN [err |-> TRUE, rec |-> d1]
    ELSE [err |-> FALSE,
          rec |-> [d1 EXCEPT
                     !.brightness = add_brightness(@, brightness_to_add(
                                    brightness_delta_of(known_output_dict),
                                    sel.options))]]

\* lines 76-102: the records in order, stopping at the first KeyError
RECURSIVE set_new_values_loop(_, _, _)
set_new_values_loop(values, i, args) ==
    IF i > Len(values)
    THEN [err |-> FALSE, values |-> values]
    ELSE LET r == update_output(values[i], args)
             values1 == [values EXCEPT ![i] = r.rec]
         IN IF r.err
            THEN [err |-> TRUE, values |-> values1]
            ELSE set_new_values_loop(values1, i + 1, args)

set_new_values_multi(values, args) == set_new_values_loop(values, 1, args)

(***************************************************************************)
(* set_new_values of the global scripts.                                   *)
(***************************************************************************)
add_deltas(values, args) ==
    IF ~Has(values, "gamma")
    THEN [err |-> TRUE, values |-> values]
    ELSE LET v1 == [values EXCEPT
                      !.gamma = MapAdd(@, gamma_to_add(GAMMA_DELTA, args))] IN
    IF ~Has(values, "brightness")
    THEN [err |-> TRUE, values |-> v1]
    ELSE [err |-> FALSE,
          values |-> [v1 EXCEPT
                        !.brightness = add_brightness(
                            @, brightness_to_add(BRIGHTNESS_DELTA, args))]]

reset_values(values) ==
    Put(Put(values, "gamma", RESET_GAMMA_VALUE),
        "brightness", RESET_BRIGHTNESS_VALUE)

\* lines 75-83 with the reset placed after the deltas
set_new_values_mini_reset_last(values, args) ==
    LET r == add_deltas(values, args) IN
    IF args.reset /\ ~r.err
    THEN [err |-> FALSE, values |-> reset_values(r.values)]
    ELSE r

set_new_values_mini(values, args) ==
    add_deltas(IF args.reset THEN reset_values(values) ELSE values, args)

set_new_values_simple(values, args) == add_deltas(values, args)

\* minixrandrctl.py lines 75-80: the class list RESET_GAMMA_VALUE is bound to
\* current_values['gamma'] and line 80 then binds a new list there; no
\* statement writes into the class list
class_reset_gamma(v, lst, args) == lst

compute_new_values(v, values, args) ==
    CASE v = MULTI -> set_new_values_multi(values, args)
      [] v = MINI -> set_new_values_mini(values, args)
      [] v = SIMPLE -> set_new_values_simple(values, args)

(***************************************************************************)
(* run_xrandr: the argument groups, the xrandr process and its outcomes.   *)
(***************************************************************************)
Group(output, gamma, brightness) ==
    [output |-> output, gamma |-> gamma, brightness |-> brightness]

\* lines 111-117 leaving out the records that lack a field
xrandr_args_multi_skip_incomplete(values) ==
    LET complete(d) ==
            Has(d, "gamma") /\ Has(d, "output") /\ Has(d, "brightness")
        sent == SelectSeq(values, complete)
    IN [err |-> FALSE,
        args |-> [i \in 1..Len(sent) |->
                    Group(sent[i].output, sent[i].gamma, sent[i].brightness)]]

\* lines 111-117 with the list assigned in the loop instead of extended
xrandr_args_multi_last_only(values) ==
    IF \E i \in 1..Len(values) :
          ~Has(values[i], "gamma") \/ ~Has(values[i], "output")
          \/ ~Has(values[i], "brightness")
    THEN [err |-> TRUE, args |-> <<>>]
    ELSE [err |-> FALSE,
          args |-> IF values = <<>> THEN <<>>
                   ELSE LET d == values[Len(values)] IN
                        <<Group(d.output, d.gamma, d.brightness)>>]

\* xrandr_controller.py lines 111-117: one group for every record
xrandr_args_multi(values) ==
    IF \E i \in 1..Len(values) :
          ~Has(values[i], "gamma") \/ ~Has(values[i], "output")
          \/ ~Has(values[i], "brightness")
    THEN [err |-> TRUE, args |-> <<>>]
    ELSE [err |-> FALSE,
          args |-> [i \in 1..Len(values) |->
                      Group(values[i].output, values[i].gamma,
                            values[i].brightness)]]

\* minixrandrctl.py lines 92-99: one group for every name in 'outputs'
xrandr_args_global(values) ==
    IF ~Has(values, "gamma") \/ ~Has(values, "brightness")
       \/ ~Has(values, "outputs")
    THEN [err |-> TRUE, args |-> <<>>]
    ELSE [err |-> FALSE,
          args |-> [i \in 1..Len(values.outputs) |->
                      Group(values.outputs[i], values.gamma,
                            values.brightness)]]

build_xrandr_args(v, values) ==
    IF v = MULTI THEN xrandr_args_multi(values) ELSE xrandr_args_global(values)

\* What subprocess.run(..., timeout=1) can do: return a CompletedProcess
\* with exit status 0 (the displays are adjusted) or not 0 (they are not),
\* raise TimeoutExpired after killing xrandr (which may or may not have
\* adjusted the displays by then), or raise OSError (xrandr cannot be run).
XrandrOutcomes ==
    {[result |-> "ok", applied |-> TRUE],
     [result |-> "nonzero", applied |-> FALSE],
     [result |-> "timeout", applied |-> FALSE],
     [result |-> "timeout", applied |-> TRUE],
     [result |-> "oserror", applied |-> FALSE]}

\* the local name 'process' is bound only when subprocess.run returned
process_is_bound(result) == result \in {"ok", "nonzero"}

\* the level of the 'completed' message
CompletedLevel(v) == IF v = MINI THEN "INFO" ELSE "DEBUG"

\* lines 124-130 with a check of the exit status added
completed_check_returncode(v, logv, result) ==
    IF result = "nonzero"
    THEN sys_exit(Emit(v, logv, "ERROR", "xrandr failed"))
    ELSE goes_on(Emit(v, logv, CompletedLevel(v), "completed"),
                 "save_new_values")

\* lines 124-130: the exit status of xrandr is not looked at
completed(v, logv, result) ==
    goes_on(Emit(v, logv, CompletedLevel(v), "completed"), "save_new_values")

\* lines 131-139 with the handler logging and carrying on
timeout_handler_no_exit(v, logv, result) ==
    goes_on(Emit(v, logv, "ERROR", "timeout"), "save_new_values")

\* lines 131-139: reading process.stderr raises UnboundLocalError when
\* 'process' is not bound; otherwise log the error and sys.exit(1)
timeout_handler(v, logv, result) ==
    IF ~process_is_bound(result)
    THEN uncaught(logv, "UnboundLocalError")
    ELSE sys_exit(Emit(v, logv, "ERROR", "timeout"))

(***************************************************************************)
(* The value file.                                                         *)
(***************************************************************************)
Document(doc) == [status |-> "ok", doc |-> doc]
Malformed == [status |-> "malformed", doc |-> <<>>]
Unreadable == [status |-> "unreadable", doc |-> <<>>]
\* opened with mode 'w' and not (completely) written
Truncated == [status |-> "truncated", doc |-> <<>>]

\* the characters of repr(x / 1000) for a float that prints as its decimal:
\* sign, integer digits, the point, the fraction without trailing zeros
RECURSIVE digits(_)
digits(n) == IF n < 10 THEN 1 ELSE 1 + digits(n \div 10)

number_len(x) ==
    IF x < 0 THEN 1 + digits((-x) \div 1000) + 1
                  + (CASE (-x) % 100 = 0 -> 1 [] (-x) % 10 = 0 -> 2
                       [] OTHER -> 3)
    ELSE digits(x \div 1000) + 1
         + (CASE x % 100 = 0 -> 1 [] x % 10 = 0 -> 2 [] OTHER -> 3)

RECURSIVE numbers_len(_)
numbers_len(xs) ==
    IF xs = <<>> THEN 0 ELSE number_len(Head(xs)) + numbers_len(Tail(xs))

record_len(d) ==
    (IF Has(d, "gamma") THEN numbers_len(d.gamma) ELSE 0)
        + (IF Has(d, "brightness") THEN number_len(d.brightness) ELSE 0)

RECURSIVE records_len(_)
records_len(ds) ==
    IF ds = <<>> THEN 0 ELSE record_len(Head(ds)) + records_len(Tail(ds))

\* the length of the text json.dump writes, counting the numbers only: what
\* else it writes is the same for documents with the same records and keys
json_len(v, doc) == IF v = MULTI THEN records_len(doc) ELSE record_len(doc)

\* line 146: the files json.dump and close can leave.  The text goes to
\* offset 0 of the file as it is then.  Over an empty file, or over the
\* complete document of another writer that is no longer, the file is the
\* document; over a longer document the other writer's tail stays behind
\* it, which no JSON parser accepts; over a text of unknown length either.
written(v, f, doc) ==
    CASE f.status = "truncated" -> {Document(doc)}
      [] f.status = "ok" ->
            IF json_len(v, f.doc) > json_len(v, doc)
            THEN {Malformed} ELSE {Document(doc)}
      [] OTHER -> {Document(doc), Malformed}

\* lines 66-67 with a failed load replaced by an empty list
load_ignore_errors(v, f) ==
    IF f.status = "ok"
    THEN [err |-> "none", values |-> f.doc]
    ELSE [err |-> "none", values |-> <<>>]

\* lines 66-67: open may raise OSError, json.load may raise JSONDecodeError
load(v, f) ==
    CASE f.status = "ok" -> [err |-> "none", values |-> f.doc]
      [] f.status = "unreadable" -> [err |-> "OSError", values |-> <<>>]
      [] OTHER -> [err |-> "JSONDecodeError", values |-> <<>>]

(***************************************************************************)
(* The command lines and value files a run starts from.                    *)
(***************************************************************************)
Tokens ==
    {Token(2, "brighter", 0), Token(2, "dimmer", 0), Token(2, "bluer", 0),
     Token(1, "redder", 0), Token(2, "reset", 0), Token(2, "bogus", 0),
     Token(0, "A", 0), Token(0, "B", 0), Token(0, "H", 0)}

OutputRecords ==
    {[output |-> "B", alias |-> "A", gamma |-> <<1000, 1000, 1000>>,
      brightness |-> 1000],
     [output |-> "H", gamma |-> <<900, 1000, 1100>>, brightness |-> 700,
      gamma_delta |-> <<500, 500, 500>>, brightness_delta |-> 200],
     [output |-> "H", alias |-> "B", gamma |-> <<1000, 1000, 1000>>]}

GlobalRecords ==
    {[outputs |-> <<"H">>, gamma |-> <<1000, 1000, 1000>>,
      brightness |-> 1000],
     [outputs |-> <<"B", "H">>, gamma |-> <<900, 1000, 1100>>,
      brightness |-> 700]}

InitialFiles(v) ==
    {Malformed, Unreadable} \cup
    IF v = MULTI
    THEN {Document(d) : d \in SeqsUpTo(OutputRecords, MaxOutputs)}
    ELSE {Document(d) : d \in GlobalRecords}

\* no second invocation
NoPeer == [pc |-> "absent"]

\* a process opened the value file for writing / wrote its document
SaveEvent(proc, op) == [proc |-> proc, op |-> op]

\* the tally when the first invocation starts: per record of the document,
\* the net signs of the runs that entered the save step (brightness) and
\* of the runs that completed it (brightness, gamma)
Zeros(v, f) ==
    IF v = MULTI /\ f.status = "ok" THEN [i \in 1..Len(f.doc) |-> 0] ELSE <<>>

FirstRun(v, f) ==
    [runs |-> 1, first |-> f, entered_b |-> Zeros(v, f),
     saved_b |-> Zeros(v, f), saved_g |-> Zeros(v, f)]

\* the net sign of two opposing flags
net_sign(up, down) ==
    CASE up /\ ~down -> 1
      [] down /\ ~up -> -1
      [] OTHER -> 0

\* per record, the net signs of the run under way
run_signs_b(values, args) ==
    [i \in 1..Len(values) |->
        LET sel == select_options(values[i], args) IN
        IF sel.targeted
        THEN net_sign(sel.options.brighter, sel.options.dimmer) ELSE 0]

run_signs_g(values, args) ==
    [i \in 1..Len(values) |->
        LET sel == select_options(values[i], args) IN
        IF sel.targeted
        THEN net_sign(sel.options.bluer, sel.options.redder) ELSE 0]

Sum(xs, ys) == [i \in 1..Len(xs) |-> xs[i] + ys[i]]

\* the tally once the run under way enters / completes its save step
entered_save(t, v, values, args) ==
    IF v = MULTI
    THEN [t EXCEPT !.entered_b = Sum(@, run_signs_b(values, args))]
    ELSE t

completed_save(t, v, values, args) ==
    IF v = MULTI
    THEN [t EXCEPT !.saved_b = Sum(@, run_signs_b(values, args)),
                   !.saved_g = Sum(@, run_signs_g(values, args))]
    ELSE t

Init ==
    /\ variant \in {MULTI, MINI, SIMPLE}
    /\ argv \in SeqsUpTo(Tokens, MaxTokens)
    /\ file \in InitialFiles(variant)
    /\ file0 = file
    /\ arguments = EmptyDict
    /\ current_values = <<>>
    /\ pc = "main"
    /\ exit_status = -1
    /\ exit_cause = "none"
    /\ log = <<>>
    /\ xrandr_args = <<>>
    /\ xrandr_calls = 0
    /\ xrandr_result = "none"
    /\ applied = FALSE
    /\ argv0 = <<>>
    /\ reset_gamma = RESET_GAMMA_VALUE
    /\ tally = FirstRun(variant, file)
    /\ peer = NoPeer
    /\ save_events = <<>>

(***************************************************************************)
(* The steps of one invocation.                                            *)
(***************************************************************************)
Step(h) ==
    /\ pc' = h.pc
    /\ exit_status' = h.exit_status
    /\ exit_cause' = h.exit_cause
    /\ log' = h.log

\* main up to and including the first lines of __init__
main ==
    /\ pc = "main"
    /\ LET r == parse_arguments(variant, argv) IN
       /\ arguments' = r.arguments
       /\ argv' = r.argv
       /\ Step(IF r.err
               THEN sys_exit(Emit(variant, log, "ERROR", "invalid option"))
               ELSE goes_on(Emit(variant, log, "DEBUG", "value file"),
                            "get_current_values"))
    /\ UNCHANGED <<variant, file, file0, current_values, xrandr_args,
                   xrandr_calls, xrandr_result, applied, argv0,
                   reset_gamma, tally, peer, save_events>>

get_current_values ==
    /\ pc = "get_current_values"
    /\ LET r == load(variant, file) IN
       /\ current_values' = r.values
       /\ Step(IF r.err = "none"
               THEN goes_on(log, "set_new_values")
               ELSE uncaught(log, r.err))
    /\ UNCHANGED <<variant, argv, arguments, file, file0, xrandr_args,
                   xrandr_calls, xrandr_result, applied, argv0,
                   reset_gamma, tally, peer, save_events>>

set_new_values ==
    /\ pc = "set_new_values"
    /\ LET r == compute_new_values(variant, current_values, arguments) IN
       /\ current_values' = r.values
       /\ Step(IF r.err
               THEN uncaught(log, "KeyError")
               ELSE goes_on(log, "run_xrandr"))
    /\ reset_gamma' = class_reset_gamma(variant, reset_gamma, arguments)
    /\ UNCHANGED <<variant, argv, arguments, file, file0, xrandr_args,
                   xrandr_calls, xrandr_result, applied, argv0,
                   tally, peer, save_events>>

run_xrandr ==
    /\ pc = "run_xrandr"
    /\ LET b == build_xrandr_args(variant, current_values) IN
       IF b.err
       THEN /\ Step(uncaught(log, "KeyError"))
            /\ UNCHANGED <<xrandr_args, xrandr_calls, xrandr_result, applied,
                           tally>>
       ELSE \E o \in XrandrOutcomes :
            LET log1 == Emit(variant, log, "DEBUG", "attempting")
                h == CASE o.result = "timeout" ->
                            timeout_handler(variant, log1, o.result)
                       [] o.result = "oserror" -> uncaught(log1, "OSError")
                       [] OTHER -> completed(variant, log1, o.result)
            IN
            /\ xrandr_args' = b.args
            /\ xrandr_calls' = xrandr_calls + 1
            /\ xrandr_result' = o.result
            /\ applied' = o.applied
            /\ Step(h)
            /\ tally' = IF h.pc = "save_new_values"
                        THEN entered_save(tally, variant, current_values,
                                          arguments)
                        ELSE tally
    /\ UNCHANGED <<variant, argv, arguments, file, file0, current_values,
                   argv0, reset_gamma, peer, save_events>>

\* lines 144-145: log the values, open the value file for writing
save_new_values ==
    /\ pc = "save_new_values"
    /\ LET log1 == Emit(variant, log, "INFO", "current values") IN
       \/ /\ file' = Truncated
          /\ save_events' = Append(save_events, SaveEvent("main", "open"))
          /\ Step(goes_on(log1, "json_dump"))
       \/ /\ file' = file
          /\ save_events' = save_events
          /\ Step(uncaught(log1, "OSError"))
    /\ UNCHANGED <<variant, argv, arguments, file0, current_values,
                   xrandr_args, xrandr_calls, xrandr_result, applied,
                   argv0, reset_gamma, tally, peer>>

\* line 146 and the return to main
json_dump ==
    /\ pc = "json_dump"
    /\ \/ /\ file' \in written(variant, file, current_values)
          /\ save_events' = Append(save_events, SaveEvent("main", "write"))
          /\ tally' = completed_save(tally, variant, current_values,
                                     arguments)
          /\ Step(returns(log))
       \/ /\ file' = file
          /\ save_events' = save_events
          /\ tally' = tally
          /\ Step(uncaught(log, "OSError"))
    /\ UNCHANGED <<variant, argv, arguments, file0, current_values,
                   xrandr_args, xrandr_calls, xrandr_result, applied,
                   argv0, reset_gamma, peer>>

Next ==
    \/ main
    \/ get_current_values
    \/ set_new_values
    \/ run_xrandr
    \/ save_new_values
    \/ json_dump

Spec == Init /\ [][Next]_vars

(***************************************************************************)
(* A sequence of invocations: when one has ended the script is started     *)
(* again, on the value file the earlier invocations left.                  *)
(***************************************************************************)
RunCommandLines ==
    {<<>>,
     <<Token(2, "brighter", 0)>>, <<Token(2, "dimmer", 0)>>,
     <<Token(2, "bluer", 0)>>, <<Token(1, "redder", 0)>>,
     <<Token(2, "bogus", 0)>>,
     <<Token(2, "brighter", 0), Token(2, "dimmer", 0)>>,
     <<Token(0, "A", 0), Token(2, "brighter", 0)>>}

RunFiles(v) ==
    IF v = MULTI
    THEN {Malformed,
          Document(<<[output |-> "B", alias |-> "A",
                      gamma |-> <<1000, 1000, 1000>>, brightness |-> 1000],
                     [output |-> "H", gamma |-> <<900, 1000, 1100>>,
                      brightness |-> 700, gamma_delta |-> <<500, 500, 500>>,
                      brightness_delta |-> 200]>>)}
    ELSE {Malformed} \cup {Document(d) : d \in GlobalRecords}

InitRuns ==
    /\ variant \in {MULTI, MINI, SIMPLE}
    /\ argv \in RunCommandLines
    /\ file \in RunFiles(variant)
    /\ file0 = file
    /\ arguments = EmptyDict
    /\ current_values = <<>>
    /\ pc = "main"
    /\ exit_status = -1
    /\ exit_cause = "none"
    /\ log = <<>>
    /\ xrandr_args = <<>>
    /\ xrandr_calls = 0
    /\ xrandr_result = "none"
    /\ applied = FALSE
    /\ argv0 = <<>>
    /\ reset_gamma = RESET_GAMMA_VALUE
    /\ tally = FirstRun(variant, file)
    /\ peer = NoPeer
    /\ save_events = <<>>

\* the process has ended and the script is invoked again
new_run ==
    /\ pc = "done"
    /\ tally.runs < MaxRuns
    /\ argv' \in RunCommandLines
    /\ file0' = file
    /\ arguments' = EmptyDict
    /\ current_values' = <<>>
    /\ pc' = "main"
    /\ exit_status' = -1
    /\ exit_cause' = "none"
    /\ log' = <<>>
    /\ xrandr_args' = <<>>
    /\ xrandr_calls' = 0
    /\ xrandr_result' = "none"
    /\ applied' = FALSE
    /\ reset_gamma' = RESET_GAMMA_VALUE
    /\ tally' = [tally EXCEPT !.runs = @ + 1]
    /\ save_events' = <<>>
    /\ UNCHANGED <<variant, file, argv0, peer>>

NextRuns ==
    \/ new_run
    \/ main
    \/ get_current_values
    \/ set_new_values
    \/ run_xrandr
    \/ save_new_values
    \/ json_dump

SpecRuns == InitRuns /\ [][NextRuns]_vars

(***************************************************************************)
(* Vocabulary of the properties.                                           *)
(***************************************************************************)
\* the log holds a record with this level and message
Logged(level, msg) ==
    \E i \in 1..Len(log) : log[i] = [level |-> level, msg |-> msg]

\* the save step was entered
SaveExecuted ==
    \/ pc \in {"save_new_values", "json_dump"}
    \/ Logged("INFO", "current values")

\* set_new_values ran to its end: current_values are the run's new values
NewValuesComputed ==
    \/ pc \in {"run_xrandr", "save_new_values", "json_dump"}
    \/ pc = "done" /\ xrandr_calls > 0

MultiComputed == variant = MULTI /\ NewValuesComputed

GlobalComputed == variant # MULTI /\ NewValuesComputed

\* the options a flag name may be, per script
Recognized(v) ==
    {"redder", "bluer", "brighter", "dimmer"}
        \cup (IF v = MINI THEN {"reset"} ELSE {})

InvalidToken(v, tok) ==
    \/ tok.lead > 0 /\ tok.body \notin Recognized(v)
    \/ v # MULTI /\ tok.lead = 0

HasInvalidToken(v, tokens) ==
    \E i \in 1..Len(tokens) : InvalidToken(v, tokens[i])

\* the Direction Set entry the priority alias > name > "all" gives a record
AliasIsKey(d) == Has(d, "alias") /\ d.alias \in DOMAIN arguments
NameIsKey(d) == d.output \in DOMAIN arguments
AllIsKey == "all" \in DOMAIN arguments
Matched(d) == AliasIsKey(d) \/ NameIsKey(d) \/ AllIsKey
EntryOf(d) ==
    IF AliasIsKey(d) THEN arguments[d.alias]
    ELSE IF NameIsKey(d) THEN arguments[d.output]
    ELSE arguments["all"]

Net(up, down) ==
    CASE up /\ ~down -> 1
      [] down /\ ~up -> -1
      [] OTHER -> 0

Scaled(step, n) == [k \in 1..Len(step) |-> step[k] * n]
Plus(xs, ys) == [k \in 1..Len(xs) |-> xs[k] + ys[k]]

\* the record an entry turns d into, with the given steps
Adjusted(d, e, step_b, step_g) ==
    [d EXCEPT !.brightness = @ + step_b * Net(e.brighter, e.dimmer),
              !.gamma = Plus(@, Scaled(step_g, Net(e.bluer, e.redder)))]

EffectiveB(d) ==
    IF Has(d, "brightness_delta") THEN d.brightness_delta ELSE 100
EffectiveG(d) ==
    IF Has(d, "gamma_delta") THEN d.gamma_delta ELSE <<0, 25, 50>>

Records == 1..Len(current_values)
Old(i) == file0.doc[i]
New(i) == current_values[i]

(***************************************************************************)
(* C1: when the xrandr process exceeds the timeout the run ends with exit  *)
(* status 1, the save step is never executed and the value file is what it *)
(* was before the run, whatever was computed in memory.                    *)
(***************************************************************************)
C1_TimeoutKeepsFile ==
    xrandr_result = "timeout" =>
        /\ pc = "done"
        /\ exit_status = 1
        /\ ~SaveExecuted
        /\ file = file0

C1_Witness ==
    /\ xrandr_result = "timeout"
    /\ pc = "done"
    /\ file0.status = "ok"
    /\ Document(current_values) # file0
    /\ file = file0

(***************************************************************************)
(* C2: at the end of a run that computed new values and started xrandr,    *)
(* the value file holds the new values if and only if the displays were    *)
(* adjusted.                                                               *)
(***************************************************************************)
C2_FileAgreesWithDisplays ==
    (pc = "done" /\ xrandr_calls > 0 /\ Document(current_values) # file0) =>
        ((file = Document(current_values)) <=> applied)

(***************************************************************************)
(* C3: a run whose xrandr process returns a non-zero exit status within    *)
(* the timeout goes on as one with exit status 0 does: the completion is   *)
(* logged, no error is, the save step follows and, unless the write fails, *)
(* the run ends with exit status 0 and the new values in the file.         *)
(***************************************************************************)
C3_NonZeroExitPersists ==
    xrandr_result \in {"ok", "nonzero"} =>
        /\ Logged(CompletedLevel(variant), "completed")
        /\ \A i \in 1..Len(log) : log[i].level # "ERROR"
        /\ SaveExecuted
        /\ pc = "done" => exit_cause \in {"return", "OSError"}
        /\ (pc = "done" /\ exit_cause = "return") =>
               exit_status = 0 /\ file = Document(current_values)

C3_Witness ==
    /\ xrandr_result = "nonzero"
    /\ pc = "done"
    /\ exit_status = 0
    /\ file = Document(current_values)
    /\ file # file0

(***************************************************************************)
(* C4: when the xrandr process exceeds the timeout, the handler writes an  *)
(* error record to the log and then ends the program through sys.exit(1),  *)
(* without raising another error.                                          *)
(***************************************************************************)
C4_TimeoutLoggedThenExit ==
    xrandr_result = "timeout" =>
        /\ Logged("ERROR", "timeout")
        /\ exit_cause = "SystemExit"
        /\ exit_status = 1

(***************************************************************************)
(* C5: a command line with an unrecognized flag anywhere (or, for the      *)
(* global scripts, a token without the flag prefix) makes main exit with   *)
(* status 1 before the value file is loaded: no record is loaded or        *)
(* changed, xrandr is not started, the file is not written, and nothing    *)
(* happens after the exit.                                                 *)
(***************************************************************************)
C5_InvalidTokenAborts ==
    [][/\ (pc = "main" /\ HasInvalidToken(variant, argv)) =>
            /\ pc' = "done"
            /\ exit_status' = 1
            /\ exit_cause' = "SystemExit"
            /\ current_values' = <<>>
            /\ xrandr_calls' = 0
            /\ file' = file
       /\ pc = "done" => UNCHANGED vars]_vars

C5_Witness ==
    /\ variant = MULTI
    /\ pc = "done"
    /\ exit_cause = "SystemExit"
    /\ exit_status = 1
    /\ Len(argv) = 1
    /\ \E k \in DOMAIN arguments : arguments[k].brighter
    /\ file = file0
    /\ current_values = <<>>
    /\ xrandr_calls = 0

(***************************************************************************)
(* C6: when the value file is unreadable or malformed the run is fatal:    *)
(* the process exits with a non-zero status, xrandr is never started and   *)
(* the file is not written.                                                *)
(***************************************************************************)
C6_LoadFailureIsFatal ==
    (file0.status # "ok" /\ pc \notin {"main", "get_current_values"}) =>
        /\ pc = "done"
        /\ exit_status # 0
        /\ xrandr_calls = 0
        /\ file = file0

C6_Witness ==
    /\ file0.status = "malformed"
    /\ pc = "done"
    /\ exit_cause = "JSONDecodeError"
    /\ exit_status = 1
    /\ xrandr_calls = 0

(***************************************************************************)
(* C7: each record is adjusted by exactly one Direction Set entry, chosen  *)
(* by the priority alias > name > "all".  A record with alias A and name B *)
(* under {A: brighter, all: dimmer} ends one brightness step higher.       *)
(***************************************************************************)
C7_AliasNameAllPriority ==
    MultiComputed =>
        \A i \in Records :
            LET d == Old(i)
                become(e) == Adjusted(d, e, EffectiveB(d), EffectiveG(d))
            IN /\ AliasIsKey(d) => New(i) = become(arguments[d.alias])
               /\ (~AliasIsKey(d) /\ NameIsKey(d)) =>
                      New(i) = become(arguments[d.output])
               /\ (~AliasIsKey(d) /\ ~NameIsKey(d) /\ AllIsKey) =>
                      New(i) = become(arguments["all"])
               /\ (/\ Has(d, "alias") /\ d.alias = "A" /\ d.output = "B"
                   /\ DOMAIN arguments = {"A", "all"}
                   /\ arguments["A"].brighter /\ ~arguments["A"].dimmer
                   /\ arguments["all"].dimmer /\ ~arguments["all"].brighter)
                  => New(i).brightness = d.brightness + EffectiveB(d)

C7_Witness ==
    /\ MultiComputed
    /\ \E i \in Records :
        /\ Has(Old(i), "alias") /\ Old(i).alias = "A" /\ Old(i).output = "B"
        /\ DOMAIN arguments = {"A", "all"}
        /\ arguments["A"].brighter /\ ~arguments["A"].dimmer
        /\ arguments["all"].dimmer /\ ~arguments["all"].brighter
        /\ New(i).brightness = Old(i).brightness + 100

(***************************************************************************)
(* C8: a record whose alias and name are no keys of the Direction Set,     *)
(* with "all" absent, is left as it was by the adjustment step, in memory  *)
(* and in the file the run writes, while other records may change.         *)
(***************************************************************************)
C8_UnmatchedRecordUntouched ==
    MultiComputed =>
        \A i \in Records :
            ~Matched(Old(i)) =>
                /\ New(i) = Old(i)
                /\ (pc = "done" /\ exit_status = 0) => file.doc[i] = Old(i)

C8_Witness ==
    /\ MultiComputed
    /\ pc = "done"
    /\ exit_status = 0
    /\ \E i, j \in Records :
        /\ ~Matched(Old(i))
        /\ file.doc[i] = Old(i)
        /\ file.doc[j] # Old(j)

(***************************************************************************)
(* C9: a targeted record's brightness changes by its effective brightness  *)
(* step times (brighter - dimmer) and each gamma channel by its effective  *)
(* gamma step times (bluer - redder); the effective step is the record's   *)
(* override when it has one and the default only when it has none; the     *)
(* step fields are not changed.                                            *)
(***************************************************************************)
C9_EffectiveSteps ==
    MultiComputed =>
        \A i \in Records :
            Matched(Old(i)) =>
                LET d == Old(i)
                    e == EntryOf(d)
                    b == B2I(e.brighter) - B2I(e.dimmer)
                    g == B2I(e.bluer) - B2I(e.redder)
                IN /\ Has(d, "brightness_delta") =>
                       New(i).brightness = d.brightness + d.brightness_delta * b
                   /\ ~Has(d, "brightness_delta") =>
                       New(i).brightness = d.brightness + 100 * b
                   /\ Has(d, "gamma_delta") =>
                       \A k \in 1..3 :
                           New(i).gamma[k] = d.gamma[k] + d.gamma_delta[k] * g
                   /\ ~Has(d, "gamma_delta") =>
                       \A k \in 1..3 :
                           New(i).gamma[k] = d.gamma[k] + <<0, 25, 50>>[k] * g
                   /\ DOMAIN New(i) = DOMAIN d
                   /\ Has(d, "brightness_delta") =>
                       New(i).brightness_delta = d.brightness_delta
                   /\ Has(d, "gamma_delta") =>
                       New(i).gamma_delta = d.gamma_delta

C9_Witness ==
    /\ MultiComputed
    /\ \E i \in Records :
        /\ Matched(Old(i))
        /\ Has(Old(i), "gamma_delta")
        /\ Old(i).gamma_delta = <<500, 500, 500>>
        /\ EntryOf(Old(i)).bluer /\ ~EntryOf(Old(i)).redder
        /\ \A k \in 1..3 : New(i).gamma[k] = Old(i).gamma[k] + 500

\* the values the deltas of a global script are added to
GlobalBase ==
    IF variant = MINI /\ arguments.reset
    THEN [gamma |-> <<1000, 1000, 1000>>, brightness |-> 1000]
    ELSE file0.doc

\* opposing flags leave the value they oppose on unchanged
C10_Cancelled ==
    /\ MultiComputed =>
        \A i \in Records :
            Matched(Old(i)) =>
                /\ (EntryOf(Old(i)).brighter /\ EntryOf(Old(i)).dimmer) =>
                       New(i).brightness = Old(i).brightness
                /\ (EntryOf(Old(i)).bluer /\ EntryOf(Old(i)).redder) =>
                       New(i).gamma = Old(i).gamma
    /\ GlobalComputed =>
        /\ (arguments.brighter /\ arguments.dimmer) =>
               current_values.brightness = GlobalBase.brightness
        /\ (arguments.bluer /\ arguments.redder) =>
               current_values.gamma = GlobalBase.gamma

\* main accepts every command line of recognized tokens
C10_Accepted ==
    (pc = "main" /\ ~HasInvalidToken(variant, argv)) =>
        pc' = "get_current_values"

(***************************************************************************)
(* C10: with brighter and dimmer both set the brightness of a record is    *)
(* not changed at all, with redder and bluer both set no gamma channel is, *)
(* and a command line of recognized tokens, opposing flags included, is    *)
(* never rejected.                                                         *)
(***************************************************************************)
C10_CancellationLaw == []C10_Cancelled /\ [][C10_Accepted]_vars

C10_Witness ==
    /\ MultiComputed
    /\ pc = "done"
    /\ exit_status = 0
    /\ \E i \in Records :
        /\ Matched(Old(i))
        /\ EntryOf(Old(i)).brighter /\ EntryOf(Old(i)).dimmer
        /\ file.doc[i].brightness = Old(i).brightness
        /\ file.doc[i].gamma # Old(i).gamma

(***************************************************************************)
(* Two invocations of xrandr_controller.py at the same time on one value   *)
(* file.  The second one goes through the steps of the first; its log and  *)
(* its effect on the displays are not recorded.                            *)
(***************************************************************************)
ConcCommandLines ==
    {<<Token(2, "brighter", 0)>>, <<Token(2, "bluer", 0)>>,
     <<Token(2, "dimmer", 0)>>}

ConcFile ==
    Document(<<[output |-> "B", alias |-> "A",
                gamma |-> <<1000, 1000, 1000>>, brightness |-> 1000]>>)

InitConc ==
    /\ variant = MULTI
    /\ argv \in ConcCommandLines
    /\ argv0 = <<>>
    /\ file = ConcFile
    /\ file0 = file
    /\ arguments = EmptyDict
    /\ current_values = <<>>
    /\ pc = "main"
    /\ exit_status = -1
    /\ exit_cause = "none"
    /\ log = <<>>
    /\ xrandr_args = <<>>
    /\ xrandr_calls = 0
    /\ xrandr_result = "none"
    /\ applied = FALSE
    /\ reset_gamma = RESET_GAMMA_VALUE
    /\ tally = FirstRun(variant, file)
    /\ \E tokens \in ConcCommandLines :
           peer = [pc |-> "main", argv |-> tokens, arguments |-> EmptyDict,
                   current_values |-> <<>>, exit_status |-> -1,
                   exit_cause |-> "none"]
    /\ save_events = <<>>

\* control of the second invocation leaving a method
PeerStep(p, h) ==
    [p EXCEPT !.pc = h.pc, !.exit_status = h.exit_status,
              !.exit_cause = h.exit_cause]

first_invocation ==
    <<variant, argv, arguments, file0, current_values, pc, exit_status,
      exit_cause, log, xrandr_args, xrandr_calls, xrandr_result, applied,
      argv0, reset_gamma, tally>>

peer_main ==
    /\ peer.pc = "main"
    /\ LET r == parse_arguments(variant, peer.argv) IN
       peer' = PeerStep([peer EXCEPT !.arguments = r.arguments,
                                     !.argv = r.argv],
                        IF r.err THEN sys_exit(<<>>)
                        ELSE goes_on(<<>>, "get_current_values"))
    /\ UNCHANGED <<first_invocation, file, save_events>>

peer_get_current_values ==
    /\ peer.pc = "get_current_values"
    /\ LET r == load(variant, file) IN
       peer' = PeerStep([peer EXCEPT !.current_values = r.values],
                        IF r.err = "none"
                        THEN goes_on(<<>>, "set_new_values")
                        ELSE uncaught(<<>>, r.err))
    /\ UNCHANGED <<first_invocation, file, save_events>>

peer_set_new_values ==
    /\ peer.pc = "set_new_values"
    /\ LET r == compute_new_values(variant, peer.current_values,
                                   peer.arguments) IN
       peer' = PeerStep([peer EXCEPT !.current_values = r.values],
                        IF r.err THEN uncaught(<<>>, "KeyError")
                        ELSE goes_on(<<>>, "run_xrandr"))
    /\ UNCHANGED <<first_invocation, file, save_events>>

peer_run_xrandr ==
    /\ peer.pc = "run_xrandr"
    /\ LET b == build_xrandr_args(variant, peer.current_values) IN
       IF b.err
       THEN peer' = PeerStep(peer, uncaught(<<>>, "KeyError"))
       ELSE \E o \in XrandrOutcomes :
            peer' = PeerStep(peer,
                        CASE o.result = "timeout" ->
                               timeout_handler(variant, <<>>, o.result)
                          [] o.result = "oserror" -> uncaught(<<>>, "OSError")
                          [] OTHER -> completed(variant, <<>>, o.result))
    /\ UNCHANGED <<first_invocation, file, save_events>>

peer_save_new_values ==
    /\ peer.pc = "save_new_values"
    /\ \/ /\ file' = Truncated
          /\ save_events' = Append(save_events, SaveEvent("peer", "open"))
          /\ peer' = PeerStep(peer, goes_on(<<>>, "json_dump"))
       \/ /\ file' = file
          /\ save_events' = save_events
          /\ peer' = PeerStep(peer, uncaught(<<>>, "OSError"))
    /\ UNCHANGED first_invocation

peer_json_dump ==
    /\ peer.pc = "json_dump"
    /\ \/ /\ file' \in written(variant, file, peer.current_values)
          /\ save_events' = Append(save_events, SaveEvent("peer", "write"))
          /\ peer' = PeerStep(peer, returns(<<>>))
       \/ /\ file' = file
          /\ save_events' = save_events
          /\ peer' = PeerStep(peer, uncaught(<<>>, "OSError"))
    /\ UNCHANGED first_invocation

NextConc ==
    \/ main
    \/ get_current_values
    \/ set_new_values
    \/ run_xrandr
    \/ save_new_values
    \/ json_dump
    \/ peer_main
    \/ peer_get_current_values
    \/ peer_set_new_values
    \/ peer_run_xrandr
    \/ peer_save_new_values
    \/ peer_json_dump

SpecConc == InitConc /\ [][NextConc]_vars

(***************************************************************************)
(* One invocation with its command line kept on record.                    *)
(***************************************************************************)
ArgTokens ==
    {Token(2, "brighter", 0), Token(2, "bluer", 0), Token(1, "dimmer", 0),
     Token(2, "bogus", 0),
     Token(0, "A", 0), Token(0, "B", 0), Token(0, "all", 0)}

InitParse ==
    /\ variant \in {MULTI, MINI, SIMPLE}
    /\ argv \in SeqsUpTo(ArgTokens, MaxArgs)
    /\ argv0 = argv
    /\ file \in RunFiles(variant)
    /\ file0 = file
    /\ arguments = EmptyDict
    /\ current_values = <<>>
    /\ pc = "main"
    /\ exit_status = -1
    /\ exit_cause = "none"
    /\ log = <<>>
    /\ xrandr_args = <<>>
    /\ xrandr_calls = 0
    /\ xrandr_result = "none"
    /\ applied = FALSE
    /\ reset_gamma = RESET_GAMMA_VALUE
    /\ tally = FirstRun(variant, file)
    /\ peer = NoPeer
    /\ save_events = <<>>

SpecParse == InitParse /\ [][Next]_vars

(***************************************************************************)
(* One invocation of xrandr_controller.py on value files whose records may *)
(* lack a field.                                                           *)
(***************************************************************************)
FieldRecords ==
    {[output |-> "B", alias |-> "A", gamma |-> <<1000, 1000, 1000>>,
      brightness |-> 1000],
     [alias |-> "A", gamma |-> <<1000, 1000, 1000>>, brightness |-> 1000],
     [output |-> "H", brightness |-> 700],
     [output |-> "H", gamma |-> <<900, 1000, 1100>>]}

InitFields ==
    /\ variant = MULTI
    /\ argv \in RunCommandLines
    /\ argv0 = argv
    /\ file \in {Document(d) : d \in SeqsUpTo(FieldRecords, MaxRecords)}
    /\ file0 = file
    /\ arguments = EmptyDict
    /\ current_values = <<>>
    /\ pc = "main"
    /\ exit_status = -1
    /\ exit_cause = "none"
    /\ log = <<>>
    /\ xrandr_args = <<>>
    /\ xrandr_calls = 0
    /\ xrandr_result = "none"
    /\ applied = FALSE
    /\ reset_gamma = RESET_GAMMA_VALUE
    /\ tally = FirstRun(variant, file)
    /\ peer = NoPeer
    /\ save_events = <<>>

SpecFields == InitFields /\ [][Next]_vars

(***************************************************************************)
(* C11 as stated: after any sequence of runs the persisted brightness of a *)
(* record is its first value plus its effective step times the net sign    *)
(* summed over the runs that reached the save step.                        *)
(***************************************************************************)
C11_SumOverRunsEnteringSave ==
    (variant = MULTI /\ pc = "done" /\ file.status = "ok") =>
        \A i \in 1..Len(file.doc) :
            file.doc[i].brightness =
                tally.first.doc[i].brightness
                    + EffectiveB(tally.first.doc[i]) * tally.entered_b[i]

(***************************************************************************)
(* C11 amended: the persisted brightness of a record is its first value    *)
(* plus its effective step times the net sign summed over the runs whose   *)
(* save step completed; runs ended by an input error, a load failure, a    *)
(* timeout or a failed save add nothing, and no bound is enforced.  The    *)
(* same holds for every gamma channel.                                     *)
(***************************************************************************)
C11_SumOverRunsCompletingSave ==
    (variant = MULTI /\ file.status = "ok") =>
        \A i \in 1..Len(file.doc) :
            LET d == tally.first.doc[i] IN
            /\ file.doc[i].brightness =
                   d.brightness + EffectiveB(d) * tally.saved_b[i]
            /\ \A k \in 1..3 :
                   file.doc[i].gamma[k] =
                       d.gamma[k] + EffectiveG(d)[k] * tally.saved_g[i]

C11_Witness ==
    /\ variant = MULTI
    /\ tally.runs = 2
    /\ pc = "done"
    /\ file.status = "ok"
    /\ \E i \in 1..Len(file.doc) :
        /\ tally.saved_b[i] = 2
        /\ file.doc[i].brightness = 1200
        /\ tally.first.doc[i].brightness = 1000

\* the Direction Set no token leaves
EmptyDirectionSet(v) == IF v = MULTI THEN EmptyDict ELSE ALLOWED_OPTIONS(v)

(***************************************************************************)
(* C12: a run with an empty token sequence yields an empty Direction Set   *)
(* and leaves every value as loaded; it does not stop short of the         *)
(* external tool unless the value file cannot be loaded or a record lacks  *)
(* a field, invokes the tool once, enters the save step whenever the tool  *)
(* returned, and when it returns it has exit status 0 and the file holds   *)
(* the pre-run document.                                                   *)
(***************************************************************************)
C12_EmptyRunIsNoOp ==
    (argv0 = <<>> /\ pc # "main") =>
        /\ arguments = EmptyDirectionSet(variant)
        /\ exit_cause # "SystemExit"
        /\ NewValuesComputed => current_values = file0.doc
        /\ xrandr_calls <= 1
        /\ (pc = "done" /\ xrandr_calls = 0) =>
               /\ exit_cause \in {"JSONDecodeError", "OSError", "KeyError"}
               /\ file0.status # "ok" \/ exit_cause = "KeyError"
        /\ (pc = "done" /\ xrandr_result \in {"ok", "nonzero"}) =>
               SaveExecuted
        /\ (pc = "done" /\ exit_cause = "return") =>
               /\ exit_status = 0
               /\ xrandr_calls = 1
               /\ SaveExecuted
               /\ file = file0

C12_Witness ==
    /\ argv0 = <<>>
    /\ variant = MULTI
    /\ pc = "done"
    /\ exit_status = 0
    /\ xrandr_calls = 1
    /\ Logged("INFO", "current values")
    /\ Len(file0.doc) = 2
    /\ file = file0

(***************************************************************************)
(* C13: the external tool is invoked at most once in a run and exactly     *)
(* once in a run that gets past the dispatch step; its argument list has   *)
(* one group (name, gamma, brightness) for every record of the loaded      *)
(* state, in state order, targeted or not; a targeted record's group       *)
(* carries its adjusted values, an untargeted record's group the values    *)
(* last persisted.                                                         *)
(***************************************************************************)
C13_OneGroupPerRecord ==
    /\ xrandr_calls <= 1
    /\ (pc \in {"save_new_values", "json_dump"} \/ exit_cause = "return") =>
           xrandr_calls = 1
    /\ (variant = MULTI /\ xrandr_calls > 0) =>
        /\ Len(xrandr_args) = Len(file0.doc)
        /\ \A i \in 1..Len(file0.doc) :
            LET d == Old(i)
                sent == xrandr_args[i]
                want == IF Matched(d)
                        THEN Adjusted(d, EntryOf(d), EffectiveB(d),
                                      EffectiveG(d))
                        ELSE d
            IN /\ sent.output = d.output
               /\ sent.gamma = want.gamma
               /\ sent.brightness = want.brightness
               /\ sent.gamma = New(i).gamma
               /\ sent.brightness = New(i).brightness

C13_Witness ==
    /\ variant = MULTI
    /\ xrandr_calls = 1
    /\ Len(file0.doc) = 2
    /\ Len(xrandr_args) = 2
    /\ \E i, j \in 1..2 :
        /\ Matched(Old(i))
        /\ xrandr_args[i].brightness # Old(i).brightness
        /\ ~Matched(Old(j))
        /\ xrandr_args[j].brightness = Old(j).brightness
        /\ xrandr_args[j].gamma = Old(j).gamma

\* the command line on record: positions, target tokens, flag tokens
Positions == 1..Len(argv0)
IsTarget(p) == ~startswith_hyphen(argv0[p])
IsFlag(p) == startswith_hyphen(argv0[p])

\* the target a position belongs to: the nearest target token at or before
\* it, the sentinel "all" when there is none
Owner(p) ==
    IF \E q \in 1..p : IsTarget(q)
    THEN LET q == CHOOSE q \in 1..p :
                    IsTarget(q) /\ \A r \in (q + 1)..p : ~IsTarget(r)
         IN TokenText(argv0[q])
    ELSE "all"

\* target token `name` occurs after position p
OccursAfter(name, p) ==
    \E q \in (p + 1)..Len(argv0) : IsTarget(q) /\ TokenText(argv0[q]) = name

\* main of xrandr_controller.py went through the whole command line
Parsed ==
    variant = MULTI /\ pc # "main" /\ ~HasInvalidToken(MULTI, argv0)

(***************************************************************************)
(* C14: every flag token is attributed to the most recently seen target    *)
(* token, to the sentinel "all" when no target token came before it; a     *)
(* flag is true in an entry only if a flag token of that name is           *)
(* attributed to the entry's target, and a flag token whose target is not  *)
(* named again after it is true in the entry of its target.                *)
(***************************************************************************)
C14_FlagsGoToNearestTarget ==
    Parsed =>
        /\ \A k \in DOMAIN arguments : \A f \in DOMAIN arguments[k] :
               arguments[k][f] =>
                   \E p \in Positions :
                       IsFlag(p) /\ strip_hyphen(argv0[p]) = f /\ Owner(p) = k
        /\ \A p \in Positions :
               (IsFlag(p) /\ ~OccursAfter(Owner(p), p)) =>
                   /\ Owner(p) \in DOMAIN arguments
                   /\ arguments[Owner(p)][strip_hyphen(argv0[p])]

C14_Witness ==
    /\ Parsed
    /\ Len(argv0) = 3
    /\ IsFlag(1) /\ IsTarget(2) /\ IsFlag(3)
    /\ TokenText(argv0[2]) # "all"
    /\ strip_hyphen(argv0[1]) # strip_hyphen(argv0[3])
    /\ arguments["all"][strip_hyphen(argv0[1])]
    /\ ~arguments["all"][strip_hyphen(argv0[3])]
    /\ arguments[TokenText(argv0[2])][strip_hyphen(argv0[3])]
    /\ ~arguments[TokenText(argv0[2])][strip_hyphen(argv0[1])]

(***************************************************************************)
(* C15: the Direction Set has one entry for every target named (and one    *)
(* for "all" when the command line starts with a flag), and each entry     *)
(* holds exactly the flags that follow the last occurrence of its target   *)
(* up to the next target token: flags given after an earlier occurrence    *)
(* are dropped.                                                            *)
(***************************************************************************)
C15_LastOccurrenceWins ==
    Parsed =>
        /\ DOMAIN arguments =
               {TokenText(argv0[p]) : p \in {q \in Positions : IsTarget(q)}}
                   \cup (IF argv0 # <<>> /\ IsFlag(1) THEN {"all"} ELSE {})
        /\ \A k \in DOMAIN arguments : \A f \in DOMAIN arguments[k] :
               arguments[k][f] <=>
                   \E p \in Positions :
                       /\ IsFlag(p)
                       /\ strip_hyphen(argv0[p]) = f
                       /\ Owner(p) = k
                       /\ ~OccursAfter(k, p)

C15_Witness ==
    /\ Parsed
    /\ Len(argv0) = 3
    /\ IsTarget(1) /\ IsFlag(2) /\ IsTarget(3)
    /\ argv0[1] = argv0[3]
    /\ DOMAIN arguments = {TokenText(argv0[1])}
    /\ ~arguments[TokenText(argv0[1])][strip_hyphen(argv0[2])]

(***************************************************************************)
(* C16: in minixrandrctl.py a run with the reset flag sets brightness to 1 *)
(* and gamma to [1,1,1] and then adds the directional deltas, so the new   *)
(* values are given by the flags and the step constants alone, whatever    *)
(* was persisted; the reset constants keep their values.                   *)
(***************************************************************************)
C16_ResetThenDelta ==
    /\ reset_gamma = <<1000, 1000, 1000>>
    /\ (variant = MINI /\ NewValuesComputed /\ arguments.reset) =>
        /\ current_values.brightness =
               1000 + 100 * Net(arguments.brighter, arguments.dimmer)
        /\ current_values.gamma =
               Plus(<<1000, 1000, 1000>>,
                    Scaled(<<0, 25, 50>>,
                           Net(arguments.bluer, arguments.redder)))

C16_Witness ==
    /\ variant = MINI
    /\ pc = "done"
    /\ exit_cause = "return"
    /\ arguments.reset /\ arguments.brighter /\ ~arguments.dimmer
    /\ file0.doc.brightness = 700
    /\ file0.doc.gamma = <<900, 1000, 1100>>
    /\ file.doc.brightness = 1100
    /\ file.doc.gamma = <<1000, 1000, 1000>>

LacksField(d) ==
    ~Has(d, "output") \/ ~Has(d, "gamma") \/ ~Has(d, "brightness")

(***************************************************************************)
(* C17: when a record of the loaded state lacks its output name, gamma or  *)
(* brightness, the run of xrandr_controller.py never invokes the external  *)
(* tool and never enters the save step, leaves the file as it was and ends *)
(* with a non-zero status (an uncaught KeyError once the command line was  *)
(* accepted), whether or not the record is targeted and whatever records   *)
(* were adjusted in memory before it.                                      *)
(***************************************************************************)
C17_MissingFieldAborts ==
    (variant = MULTI /\ file0.status = "ok"
     /\ \E i \in 1..Len(file0.doc) : LacksField(file0.doc[i])) =>
        /\ xrandr_calls = 0
        /\ ~SaveExecuted
        /\ file = file0
        /\ pc = "done" =>
               /\ exit_status # 0
               /\ ~HasInvalidToken(MULTI, argv0) => exit_cause = "KeyError"

C17_Witness ==
    /\ variant = MULTI
    /\ pc = "done"
    /\ exit_cause = "KeyError"
    /\ exit_status = 1
    /\ xrandr_calls = 0
    /\ file = file0
    /\ Len(file0.doc) = 2
    /\ ~LacksField(file0.doc[1])
    /\ current_values[1].brightness # file0.doc[1].brightness
    /\ ~Has(file0.doc[2], "gamma")
    /\ ~Matched(file0.doc[2])

(***************************************************************************)
(* C18: the save step replaces the value file atomically: in every         *)
(* reachable state, a failure in the middle of the save step included, the *)
(* file holds the complete pre-run document or the complete post-run       *)
(* document, never an empty or partly written one.                         *)
(***************************************************************************)
C18_SaveIsAtomic ==
    /\ file.status # "truncated"
    /\ file = file0 \/ file = Document(current_values)

\* the gamma lists of a loaded state or document
GammasOf(v, doc) ==
    IF doc = <<>> THEN {}
    ELSE IF v = MULTI THEN {doc[i].gamma : i \in 1..Len(doc)}
    ELSE {doc.gamma}

(***************************************************************************)
(* C19: starting from a value file in which every gamma and every gamma    *)
(* step has 3 components, through any sequence of runs every gamma in      *)
(* memory, on the command line of the external tool and in the file has    *)
(* exactly 3 components.                                                   *)
(***************************************************************************)
C19_GammaHasThreeComponents ==
    /\ \A g \in GammasOf(variant, current_values) : Len(g) = 3
    /\ file.status = "ok" =>
           \A g \in GammasOf(variant, file.doc) : Len(g) = 3
    /\ \A i \in 1..Len(xrandr_args) : Len(xrandr_args[i].gamma) = 3

C19_Witness ==
    /\ variant = MULTI
    /\ tally.runs = 2
    /\ pc = "done"
    /\ exit_cause = "return"
    /\ \E i \in 1..Len(file.doc) :
        /\ tally.saved_g[i] = 2
        /\ file.doc[i].gamma # tally.first.doc[i].gamma
        /\ Len(file.doc[i].gamma) = 3

\* both invocations ended with their save step completed
BothSaved ==
    /\ pc = "done" /\ exit_cause = "return"
    /\ peer.pc = "done" /\ peer.exit_cause = "return"

\* what the invocation whose write came last had to write
LastWritten ==
    IF save_events[Len(save_events)].proc = "main"
    THEN current_values ELSE peer.current_values

(***************************************************************************)
(* C20: of two invocations running at the same time on one value file the  *)
(* last write wins: when both have saved, the file holds exactly what the  *)
(* invocation that wrote last wrote.                                       *)
(***************************************************************************)
C20_LastWriteWins ==
    BothSaved => file = Document(LastWritten)

\* the interleaving the claim names: two brighter runs, both loading before
\* either saves, leave the brightness one step up
C20_LostUpdate ==
    /\ BothSaved
    /\ arguments["all"].brighter /\ peer.arguments["all"].brighter
    /\ file.status = "ok"
    /\ file.doc[1].brightness = ConcFile.doc[1].brightness + 100

\* the command line is a brighter flag followed by one target token
BrighterThenTarget ==
    /\ Parsed
    /\ NewValuesComputed
    /\ Len(argv0) = 2
    /\ IsFlag(1) /\ strip_hyphen(argv0[1]) = "brighter"
    /\ IsTarget(2)

\* the record is addressed by the token, by alias or by name
Names(d, name) == (Has(d, "alias") /\ d.alias = name) \/ d.output = name

ShieldedOrBrightened(target) ==
    \A i \in 1..Len(file0.doc) :
        LET d == Old(i) IN
        /\ New(i).gamma = d.gamma
        /\ New(i).brightness =
               IF Names(d, target) THEN d.brightness
               ELSE d.brightness + EffectiveB(d)

(***************************************************************************)
(* C21 as stated: for tokens `--brighter T` the target T gets an all-false *)
(* entry, every record not matching T is brightened by one step and the    *)
(* record whose alias or name is T keeps its brightness and gamma, for     *)
(* every target token T.                                                   *)
(***************************************************************************)
C21_TargetShieldsFromAll ==
    BrighterThenTarget =>
        /\ \A f \in DOMAIN arguments[TokenText(argv0[2])] :
               ~arguments[TokenText(argv0[2])][f]
        /\ ShieldedOrBrightened(TokenText(argv0[2]))

(***************************************************************************)
(* C21 amended: for tokens `--brighter T` with T other than the sentinel   *)
(* "all", T gets an all-false entry beside the "all" entry, every record   *)
(* not matching T is brightened by its effective step and the record whose *)
(* alias or name is T keeps its brightness and gamma; when T is "all" the  *)
(* token restarts the "all" entry itself, which is the only entry and      *)
(* all-false, and no record changes.                                       *)
(***************************************************************************)
C21_NamedTargetShieldsFromAll ==
    BrighterThenTarget =>
        LET target == TokenText(argv0[2]) IN
        /\ \A f \in DOMAIN arguments[target] : ~arguments[target][f]
        /\ target # "all" =>
               /\ DOMAIN arguments = {"all", target}
               /\ arguments["all"].brighter
               /\ ShieldedOrBrightened(target)
        /\ target = "all" =>
               /\ DOMAIN arguments = {"all"}
               /\ current_values = file0.doc

C21_Witness ==
    /\ BrighterThenTarget
    /\ TokenText(argv0[2]) # "all"
    /\ pc = "done"
    /\ exit_cause = "return"
    /\ Len(file0.doc) = 2
    /\ Names(Old(1), TokenText(argv0[2]))
    /\ ~Names(Old(2), TokenText(argv0[2]))
    /\ file.doc[1] = Old(1)
    /\ file.doc[2].brightness = Old(2).brightness + EffectiveB(Old(2))

====
